---- MODULE Spec2Model ----
(***************************************************************************)
(* Setlone App API: the users table and the handlers that read and write   *)
(* it (registration with UID allocation, UID update, soft delete, profile  *)
(* update, profile image upload), and the equity chart proxy's candle      *)
(* extraction.                                                             *)
(*                                                                         *)
(* Each HTTP request runs on a client slot p.  A handler is cut into one   *)
(* action per await that touches shared state (a database query or a file  *)
(* operation); the synchronous code between two awaits belongs to the      *)
(* action of the await before it.                                          *)
(*                                                                         *)
(* JavaScript strings whose characters the code inspects (UIDs, file       *)
(* paths) are sequences of character codes.  Strings the code only         *)
(* compares for equality (email, username, phone number) are tokens.       *)
(***************************************************************************)
EXTENDS Integers, Sequences, FiniteSets, TLC

(***************************************************************************)
(* Bounds of the model.                                                    *)
(***************************************************************************)
\* rows the users table may hold
MaxUsers == 2
\* Math.floor(Math.random() * 9000000) is drawn from 0..NumDraws-1 and 8999999
NumDraws == 1
\* colliding draws one generateUniqueUID call may see while requests overlap
MaxCollisions == 1
\* length of the upstream timestamp array
MaxLen == 3

\* client slots: requests on different slots interleave at every await
Procs == {"p1", "p2"}

(***************************************************************************)
(* Strings as sequences of character codes.                                *)
(***************************************************************************)
\* the character codes of '0'..'9'
DigitChars == 48..57

\* the character of the decimal digit d
DigitChar(d) == 48 + d

IsDigitChar(c) == c \in DigitChars

\* String(n) for an integer n >= 0: its decimal digits, no padding
RECURSIVE String(_)
String(n) == IF n < 10 THEN <<DigitChar(n)>> ELSE String(n \div 10) \o <<DigitChar(n % 10)>>

\* the value a string of decimal digits denotes
RECURSIVE NumericValue(_)
NumericValue(s) ==
    IF s = <<>> THEN 0
    ELSE 10 * NumericValue(SubSeq(s, 1, Len(s) - 1)) + (s[Len(s)] - DigitChar(0))

\* the regular expression \d{n}$ matched against s from position i
RECURSIVE MatchDigitsToEnd(_, _, _)
MatchDigitsToEnd(s, i, n) ==
    IF n = 0 THEN i = Len(s) + 1
    ELSE /\ i <= Len(s)
         /\ IsDigitChar(s[i])
         /\ MatchDigitsToEnd(s, i + 1, n - 1)

UidDigits == 7

\* /^\d{7}$/.test(newUID) with the bound dropped (a plausible slip: /^\d{7}/)
UidPatternUnanchored(s) == Len(s) >= UidDigits /\ \A i \in 1..UidDigits : IsDigitChar(s[i])

\* /^\d{7}$/.test(newUID)
UidPattern(s) == MatchDigitsToEnd(s, 1, UidDigits)

\* the body schema of PUT /users/:userId/uid: pattern '^\\d{7}$'
SchemaUidPattern(s) == MatchDigitsToEnd(s, 1, UidDigits)

(***************************************************************************)
(* generateUniqueUID: the pure parts.                                      *)
(***************************************************************************)
maxAttempts == 100
UidBase == 1000000
UidSpan == 9000000

\* values of Math.floor(Math.random() * 9000000): the low end and the top
Draws == (0..(NumDraws - 1)) \cup {UidSpan - 1}

\* the candidate without the offset (a plausible slip)
CandidateNoOffset(d) == String(d)

\* String(Math.floor(Math.random() * 9000000) + 1000000), d the floored product
Candidate(d) == String(d + UidBase)

\* the loop test with an off-by-one budget (a plausible slip)
LoopContinuesOneMore(exists, attempts) == exists /\ attempts <= maxAttempts

\* while (exists && attempts < maxAttempts)
LoopContinues(exists, attempts) == exists /\ attempts < maxAttempts

\* if (attempts >= maxAttempts) throw new Error('Failed to generate unique UID')
Exhausted(attempts) == attempts >= maxAttempts

(***************************************************************************)
(* The users table (database/schema.sql and the two migrations).           *)
(* users[i] is the row with id i (AUTO_INCREMENT).                         *)
(***************************************************************************)
VARIABLES
    users,   \* the rows of the users table, by id
    files,   \* the paths of the files on disk
    pc,      \* pc[p]: where the request on slot p is in its handler
    req,     \* req[p]: the request (route, params, body, Authorization)
    loc,     \* loc[p]: the handler's local variables
    reply,   \* reply[p]: the response sent, code 0 while none
    upstream, \* the provider's answer to the upstream request
    chart,   \* the market route's response
    market,  \* the request to a market route, and the value of Date.now()
    fetched, \* the upstream request the route issued
    pool,    \* the number of connections of the pool that are checked out
    tx       \* tx[p]: the call of transaction(callback) on slot p

dbVars == <<users, files>>
reqVars == <<pc, req, loc, reply>>
chartVars == <<upstream, chart, market, fetched>>
txVars == <<pool, tx>>
vars == <<users, files, pc, req, loc, reply, upstream, chart, market, fetched, pool, tx>>

NullImage == [kind |-> "null", path |-> <<>>]

\* the row INSERTed by createUser: email_verified FALSE, the rest defaults;
\* password_hash is the bcrypt hash of the submitted password
NewRow(body, uid) ==
    [email |-> body.email, username |-> body.username,
     password_hash |-> "hash",
     phone_number |-> body.phoneNumber, uid |-> uid,
     deleted |-> FALSE, is_active |-> TRUE, is_verified |-> FALSE,
     email_verified |-> FALSE, code |-> "NULL",
     profile_image |-> NullImage, bio |-> "NULL"]

Ids == 1..Len(users)
ActiveIds == {i \in Ids : ~users[i].deleted}

\* SELECT 1 FROM users WHERE email = ? AND deleted_at IS NULL LIMIT 1
emailExists(email) == \E i \in ActiveIds : users[i].email = email

\* SELECT 1 FROM users WHERE username = ? AND deleted_at IS NULL LIMIT 1
usernameExists(username) == \E i \in ActiveIds : users[i].username = username

\* the phone check answering false always (a plausible slip)
phoneNumberExistsNever(phone) == FALSE

\* SELECT 1 FROM users WHERE phone_number = ? AND deleted_at IS NULL LIMIT 1
phoneNumberExists(phone) == \E i \in ActiveIds : users[i].phone_number = phone

\* SELECT 1 FROM users WHERE uid = ? LIMIT 1 (deleted rows included)
uidRowExists(uid) == \E i \in Ids : users[i].uid = uid

\* getUserById: the id of the active row, 0 for null
getUserById(userId) == IF userId \in ActiveIds THEN userId ELSE 0

\* getUserByUID: rows[0] of the active rows with this uid, 0 for null
getUserByUID(uid) ==
    LET hits == {i \in ActiveIds : users[i].uid = uid}
    IN  IF hits = {} THEN 0 ELSE CHOOSE i \in hits : \A j \in hits : i <= j

\* the uid column without its UNIQUE key (migration not applied)
UidKeyMissing(uid, self) == TRUE

\* uid VARCHAR(7) NULL UNIQUE: no other row, deleted or not, has this uid
UidKeyFree(uid, self) == \A i \in Ids \ {self} : users[i].uid # uid

\* email VARCHAR(255) NOT NULL UNIQUE
EmailKeyFree(email, self) == \A i \in Ids \ {self} : users[i].email # email

\* username VARCHAR(50) NOT NULL UNIQUE
UsernameKeyFree(username, self) == \A i \in Ids \ {self} : users[i].username # username

(***************************************************************************)
(* Requests.                                                               *)
(***************************************************************************)
NoBody == [email |-> "", username |-> "", phoneNumber |-> "",
           emailFormatOk |-> FALSE, birthDateOk |-> FALSE]
NoAuth == [kind |-> "none", id |-> 0]
NoPatch == [profile_image |-> [kind |-> "undefined", path |-> <<>>], bio |-> "undefined"]
\* the object {}: an object is a function from its own keys; the value of a
\* key is <<v>>, or <<>> for undefined
NoUpdateData == <<>>
NoReq == [route |-> "none", entry |-> "none", body |-> NoBody, userId |-> 0,
          uid |-> <<>>, auth |-> NoAuth, patch |-> NoPatch, file |-> "none",
          code |-> "", updateData |-> NoUpdateData]
NoLoc == [uid |-> <<>>, exists |-> TRUE, attempts |-> 0, insertId |-> 0,
          user |-> 0, principal |-> 0, oldImage |-> NullImage,
          fileUrl |-> NullImage, unlinked |-> FALSE, error |-> ""]
NoReply == [code |-> 0, message |-> ""]

\* register bodies; emailFormatOk and birthDateOk are the results of the
\* handler's two regular-expression tests on the submitted strings
Body(e, u, ph, ef, bd) ==
    [email |-> e, username |-> u, phoneNumber |-> ph,
     emailFormatOk |-> ef, birthDateOk |-> bd]

Bodies ==
    { Body("e1", "u1", "+1", TRUE, TRUE),
      Body("e2", "u2", "+2", TRUE, TRUE),
      Body("e3", "u1", "+3", TRUE, TRUE),
      Body("e4", "u4", "+1", TRUE, TRUE),
      Body("bad", "u5", "+5", FALSE, TRUE),
      Body("e6", "u6", "+6", TRUE, FALSE) }

Idle(p) == pc[p] \in {"idle", "done"}

\* the number of registrations that may still insert a row
Registering == {p \in Procs : req[p].route = "register" /\ pc[p] # "done"}

\* send a response and finish the request
Send(p, code, message) ==
    /\ reply' = [reply EXCEPT ![p] = [code |-> code, message |-> message]]
    /\ pc' = [pc EXCEPT ![p] = "done"]

ErrExhausted == "Failed to generate unique UID"
ErrDupEntry == "ER_DUP_ENTRY"
ErrTypeError == "Cannot read properties of null"

(***************************************************************************)
(* POST /auth/register (routes/auth.js) with createUser and                *)
(* generateUniqueUID (models/User.js).                                     *)
(***************************************************************************)
\* the request arrives; the handler tests the email format
RegStart(p, body) ==
    /\ Idle(p)
    /\ Len(users) + Cardinality(Registering) < MaxUsers
    /\ req' = [req EXCEPT ![p] = [NoReq EXCEPT !.route = "register", !.body = body]]
    /\ loc' = [loc EXCEPT ![p] = NoLoc]
    /\ IF ~body.emailFormatOk
       THEN Send(p, 400, "Invalid email format")
       ELSE /\ pc' = [pc EXCEPT ![p] = "emailExists"]
            /\ reply' = [reply EXCEPT ![p] = NoReply]
    /\ UNCHANGED <<dbVars, chartVars, txVars>>

RegEmailExists(p) ==
    /\ pc[p] = "emailExists" /\ req[p].route = "register"
    /\ IF emailExists(req[p].body.email)
       THEN Send(p, 400, "Email already exists")
       ELSE pc' = [pc EXCEPT ![p] = "usernameExists"] /\ UNCHANGED reply
    /\ UNCHANGED <<dbVars, chartVars, txVars, req, loc>>

RegUsernameExists(p) ==
    /\ pc[p] = "usernameExists"
    /\ IF usernameExists(req[p].body.username)
       THEN Send(p, 400, "Username already exists")
       ELSE pc' = [pc EXCEPT ![p] = "phoneNumberExists"] /\ UNCHANGED reply
    /\ UNCHANGED <<dbVars, chartVars, txVars, req, loc>>

\* the phone check, then the birth date test and bcrypt.hash (both local)
RegPhoneNumberExists(p) ==
    /\ pc[p] = "phoneNumberExists"
    /\ IF phoneNumberExists(req[p].body.phoneNumber)
       THEN Send(p, 400, "Phone number already exists")
       ELSE IF ~req[p].body.birthDateOk
       THEN Send(p, 400, "Invalid birth date format. Use YYYY-MM-DD")
       ELSE pc' = [pc EXCEPT ![p] = "generateUniqueUID"] /\ UNCHANGED reply
    /\ UNCHANGED <<dbVars, chartVars, txVars, req, loc>>

\* one iteration of the loop of generateUniqueUID: draw, query, count; then
\* the loop test and, when the loop ends, the exhaustion test.  cap bounds
\* the colliding draws the random source hands to one call.
generateUniqueUID(p, cap) ==
    /\ pc[p] = "generateUniqueUID"
    /\ \E d \in Draws :
         LET uid == Candidate(d)
             exists == uidRowExists(uid)
             attempts == loc[p].attempts + 1
         IN  /\ exists => attempts <= cap
             /\ IF LoopContinues(exists, attempts)
                THEN /\ loc' = [loc EXCEPT ![p].uid = uid, ![p].exists = exists,
                                           ![p].attempts = attempts]
                     /\ UNCHANGED <<pc, reply>>
                ELSE IF Exhausted(attempts)
                THEN /\ loc' = [loc EXCEPT ![p].uid = uid, ![p].exists = exists,
                                           ![p].attempts = attempts,
                                           ![p].error = ErrExhausted]
                     /\ Send(p, 500, "Failed to create user")
                ELSE /\ loc' = [loc EXCEPT ![p].uid = uid, ![p].exists = exists,
                                           ![p].attempts = attempts]
                     /\ pc' = [pc EXCEPT ![p] = "insert"]
                     /\ UNCHANGED reply
    /\ UNCHANGED <<dbVars, chartVars, txVars, req>>

\* createUser's INSERT, checked against the three UNIQUE keys
createUserInsert(p) ==
    /\ pc[p] = "insert"
    /\ LET row == NewRow(req[p].body, loc[p].uid)
           id == Len(users) + 1
       IN  IF /\ EmailKeyFree(row.email, id)
              /\ UsernameKeyFree(row.username, id)
              /\ UidKeyFree(row.uid, id)
           THEN /\ users' = Append(users, row)
                /\ loc' = [loc EXCEPT ![p].insertId = id]
                /\ pc' = [pc EXCEPT ![p] = "getUserById"]
                /\ UNCHANGED reply
           ELSE /\ loc' = [loc EXCEPT ![p].error = ErrDupEntry]
                /\ Send(p, 500, "Failed to create user")
                /\ UNCHANGED users
    /\ UNCHANGED <<files, chartVars, txVars, req>>

\* createUser's return getUserById(result.insertId)
createUserReturn(p) ==
    /\ pc[p] = "getUserById" /\ req[p].route = "register"
    /\ loc' = [loc EXCEPT ![p].user = getUserById(loc[p].insertId)]
    /\ pc' = [pc EXCEPT ![p] = "setEmailVerificationCode"]
    /\ UNCHANGED <<dbVars, chartVars, txVars, req, reply>>

\* const verificationCode = '123456'
verificationCode == "123456"

\* setEmailVerificationCode: UPDATE users SET email_verification_code = ?
\* WHERE email = ? AND deleted_at IS NULL; the table after it
setEmailVerificationCode(email, code) ==
    [i \in Ids |->
        IF users[i].email = email /\ ~users[i].deleted
        THEN [users[i] EXCEPT !.code = code]
        ELSE users[i]]

\* setEmailVerificationCode(email, '123456'), then the 201 reply built from
\* user.id (a TypeError when createUser returned null)
RegSetCode(p) ==
    /\ pc[p] = "setEmailVerificationCode"
    /\ users' = setEmailVerificationCode(req[p].body.email, verificationCode)
    /\ IF loc[p].user = 0
       THEN /\ loc' = [loc EXCEPT ![p].error = ErrTypeError]
            /\ Send(p, 500, "Failed to create user")
       ELSE /\ Send(p, 201, "User registered successfully. Please verify your email.")
            /\ UNCHANGED loc
    /\ UNCHANGED <<files, chartVars, txVars, req>>

\* the query of setEmailVerificationCode fails (query() logs and rethrows):
\* the handler's catch answers 500, after createUser has inserted the row
RegSetCodeThrows(p) ==
    /\ pc[p] = "setEmailVerificationCode"
    /\ loc' = [loc EXCEPT ![p].error = "query failed"]
    /\ Send(p, 500, "Failed to create user")
    /\ UNCHANGED <<dbVars, chartVars, txVars, req>>

(***************************************************************************)
(* POST /auth/send-verification and POST /auth/verify-email                *)
(* (routes/auth.js) with verifyEmailCode (models/User.js).                 *)
(***************************************************************************)
\* emails of the two requests: of registered users, and of nobody
VerifyEmails == {"e1", "e2", "e9"}

\* submitted codes: the fixed code and another string
Codes == {verificationCode, "000000"}

SendStart(p, email) ==
    /\ Idle(p)
    /\ req' = [req EXCEPT ![p] = [NoReq EXCEPT !.route = "send-verification",
                                               !.body = [NoBody EXCEPT !.email = email]]]
    /\ loc' = [loc EXCEPT ![p] = NoLoc]
    /\ reply' = [reply EXCEPT ![p] = NoReply]
    /\ pc' = [pc EXCEPT ![p] = "emailExists"]
    /\ UNCHANGED <<dbVars, chartVars, txVars>>

\* if (!(await emailExists(email))) 400 'User not found'
SendEmailExists(p) ==
    /\ pc[p] = "emailExists" /\ req[p].route = "send-verification"
    /\ IF ~emailExists(req[p].body.email)
       THEN Send(p, 400, "User not found")
       ELSE pc' = [pc EXCEPT ![p] = "sendCode"] /\ UNCHANGED reply
    /\ UNCHANGED <<dbVars, chartVars, txVars, req, loc>>

\* await setEmailVerificationCode(email, verificationCode), then the reply
SendSetCode(p) ==
    /\ pc[p] = "sendCode"
    /\ users' = setEmailVerificationCode(req[p].body.email, verificationCode)
    /\ Send(p, 200, "Verification code sent")
    /\ UNCHANGED <<files, chartVars, txVars, req, loc>>

VerifyStart(p, email, code) ==
    /\ Idle(p)
    /\ req' = [req EXCEPT ![p] = [NoReq EXCEPT !.route = "verify-email",
                                               !.body = [NoBody EXCEPT !.email = email],
                                               !.code = code]]
    /\ loc' = [loc EXCEPT ![p] = NoLoc]
    /\ reply' = [reply EXCEPT ![p] = NoReply]
    /\ pc' = [pc EXCEPT ![p] = "verifyEmailCode"]
    /\ UNCHANGED <<dbVars, chartVars, txVars>>

\* the WHERE clause with the test of the code left out (a plausible slip)
CodeMatchesAnyCode(row, email, code) == row.email = email /\ ~row.deleted

\* WHERE email = ? AND email_verification_code = ? AND deleted_at IS NULL;
\* a comparison with a NULL column is not true
CodeMatches(row, email, code) ==
    /\ row.email = email
    /\ row.code # "NULL" /\ row.code = code
    /\ ~row.deleted

\* verifyEmailCode: UPDATE users SET email_verified = TRUE,
\* email_verification_code = NULL WHERE ...; result.affectedRows > 0 decides
\* the reply
verifyEmailCode(p) ==
    /\ pc[p] = "verifyEmailCode"
    /\ LET email == req[p].body.email
           code == req[p].code
           verified == \E i \in Ids : CodeMatches(users[i], email, code)
       IN  /\ users' = [i \in Ids |->
                           IF CodeMatches(users[i], email, code)
                           THEN [users[i] EXCEPT !.email_verified = TRUE, !.code = "NULL"]
                           ELSE users[i]]
           /\ IF ~verified
              THEN Send(p, 400, "Invalid verification code")
              ELSE Send(p, 200, "Email verified successfully")
    /\ UNCHANGED <<files, chartVars, txVars, req, loc>>

(***************************************************************************)
(* PUT /users/:userId/uid (routes/users.js) with updateUserUID and         *)
(* getUserByUID (models/User.js).  entry "route" is the HTTP route, entry  *)
(* "call" a direct call of the exported function updateUserUID.            *)
(***************************************************************************)
\* the string whose characters are the decimal digits ds
Lit(ds) == [i \in 1..Len(ds) |-> DigitChar(ds[i])]

\* request values of uid: well formed, zero padded, too short, too long,
\* with a letter, with a trailing letter
NewUIDs ==
    { Candidate(0), Lit(<<0, 0, 0, 0, 0, 0, 1>>), Lit(<<1, 2, 3, 4, 5, 6>>),
      Lit(<<1, 2, 3, 4, 5, 6, 7, 8>>),
      <<DigitChar(1), DigitChar(2), 97, DigitChar(4), DigitChar(5), DigitChar(6), DigitChar(7)>>,
      <<>> }

Entries == {"route", "call"}

\* an error thrown by updateUserUID: the route's catch answers 404 when the
\* message includes 'not found' (no message of the model does), else 400
UidThrow(p, message) ==
    /\ loc' = [loc EXCEPT ![p].error = message]
    /\ pc' = [pc EXCEPT ![p] = "done"]
    /\ reply' = [reply EXCEPT ![p] =
                    IF req[p].entry = "route"
                    THEN [code |-> 400, message |-> message]
                    ELSE NoReply]

ErrUidFormat == "UID must be exactly 7 digits"
ErrUidExists == "UID already exists"

\* the request arrives: schema validation of the body (route only), then
\* the format test of updateUserUID
UidStart(p, userId, uid, entry, auth) ==
    /\ Idle(p)
    /\ req' = [req EXCEPT ![p] = [NoReq EXCEPT !.route = "uid", !.entry = entry,
                                               !.userId = userId, !.uid = uid,
                                               !.auth = auth]]
    /\ IF entry = "route" /\ ~SchemaUidPattern(uid)
       THEN /\ loc' = [loc EXCEPT ![p] = NoLoc]
            /\ Send(p, 400, "body/uid must match pattern")
       ELSE IF ~UidPattern(uid)
       THEN /\ loc' = [loc EXCEPT ![p] = [NoLoc EXCEPT !.error = ErrUidFormat]]
            /\ pc' = [pc EXCEPT ![p] = "done"]
            /\ reply' = [reply EXCEPT ![p] =
                            IF entry = "route"
                            THEN [code |-> 400, message |-> ErrUidFormat]
                            ELSE NoReply]
       ELSE /\ loc' = [loc EXCEPT ![p] = NoLoc]
            /\ pc' = [pc EXCEPT ![p] = "getUserByUID"]
            /\ reply' = [reply EXCEPT ![p] = NoReply]
    /\ UNCHANGED <<dbVars, chartVars, txVars>>

\* const existingUser = await getUserByUID(newUID) and the test on it
updateUserUIDCheck(p) ==
    /\ pc[p] = "getUserByUID"
    /\ LET existingUser == getUserByUID(req[p].uid)
       IN  IF existingUser # 0 /\ existingUser # req[p].userId
           THEN UidThrow(p, ErrUidExists)
           ELSE /\ pc' = [pc EXCEPT ![p] = "updateUid"]
                /\ loc' = [loc EXCEPT ![p].user = existingUser]
                /\ UNCHANGED reply
    /\ UNCHANGED <<dbVars, chartVars, txVars, req>>

\* UPDATE users SET uid = ? WHERE id = ? AND deleted_at IS NULL, checked
\* against the UNIQUE key of uid
updateUserUIDWrite(p) ==
    /\ pc[p] = "updateUid"
    /\ LET id == req[p].userId
       IN  IF id \in ActiveIds /\ ~UidKeyFree(req[p].uid, id)
           THEN UidThrow(p, ErrDupEntry) /\ UNCHANGED users
           ELSE /\ users' = [i \in Ids |->
                               IF i = id /\ ~users[i].deleted
                               THEN [users[i] EXCEPT !.uid = req[p].uid]
                               ELSE users[i]]
                /\ pc' = [pc EXCEPT ![p] = "getUserById"]
                /\ UNCHANGED <<loc, reply>>
    /\ UNCHANGED <<files, chartVars, txVars, req>>

\* return getUserById(userId), then the route's reply built from user.uid
updateUserUIDReturn(p) ==
    /\ pc[p] = "getUserById" /\ req[p].route = "uid"
    /\ LET user == getUserById(req[p].userId)
       IN  IF req[p].entry = "call"
           THEN /\ loc' = [loc EXCEPT ![p].user = user]
                /\ pc' = [pc EXCEPT ![p] = "done"]
                /\ UNCHANGED reply
           ELSE IF user = 0
           THEN UidThrow(p, ErrTypeError)
           ELSE /\ loc' = [loc EXCEPT ![p].user = user]
                /\ Send(p, 200, "UID updated successfully")
    /\ UNCHANGED <<dbVars, chartVars, txVars, req>>

(***************************************************************************)
(* The authenticate preHandler (middleware/auth.js).  Authorization is     *)
(* absent ("none"), not a Bearer header ("malformed"), a Bearer token that *)
(* request.jwtVerify() rejects ("invalid"), or one it decodes to the       *)
(* principal with the given id ("valid").                                  *)
(***************************************************************************)
Auths ==
    { NoAuth, [kind |-> "malformed", id |-> 0], [kind |-> "invalid", id |-> 0] }
    \cup { [kind |-> "valid", id |-> i] : i \in 1..MaxUsers }

\* !authHeader || !authHeader.startsWith('Bearer ')
NoBearer(auth) == auth.kind \in {"none", "malformed"}

\* a verification that accepts every bearer token (a plausible slip)
JwtVerifiesAny(auth) == auth.kind \in {"valid", "invalid"}

\* request.jwtVerify() resolves
JwtVerifies(auth) == auth.kind = "valid"

\* the preHandler of the routes that declare it; the handler's first
\* synchronous test (request.user.id !== parseInt(userId)) follows it
authenticate(p) ==
    /\ pc[p] = "authenticate"
    /\ IF NoBearer(req[p].auth)
       THEN Send(p, 401, "No token provided") /\ UNCHANGED loc
       ELSE IF ~JwtVerifies(req[p].auth)
       THEN Send(p, 401, "Invalid or expired token") /\ UNCHANGED loc
       ELSE /\ loc' = [loc EXCEPT ![p].principal = req[p].auth.id]
            /\ pc' = [pc EXCEPT ![p] = "handler"]
            /\ UNCHANGED reply
    /\ UNCHANGED <<dbVars, chartVars, txVars, req>>

(***************************************************************************)
(* Image values: a JavaScript string classified by its prefix.  A string   *)
(* that starts with '/' is kind "path" with its segments.                  *)
(***************************************************************************)
Undefined == [kind |-> "undefined", path |-> <<>>]
UrlPath(segs) == [kind |-> "path", path |-> segs]

\* s.startsWith('/uploads/')
StartsWithUploads(img) ==
    img.kind = "path" /\ Len(img.path) >= 2 /\ img.path[1] = "uploads"

\* path.join: '..' removes the segment before it
RECURSIVE Normalize(_, _)
Normalize(segs, acc) ==
    IF segs = <<>> THEN acc
    ELSE IF Head(segs) = ".."
    THEN Normalize(Tail(segs), IF acc = <<>> THEN acc ELSE SubSeq(acc, 1, Len(acc) - 1))
    ELSE Normalize(Tail(segs), Append(acc, Head(segs)))

\* path.join(__dirname, '../..', fileUrl), relative to the project root
DiskPath(img) == Normalize(img.path, <<>>)

FileNames == {"f1", "f2"}

ProfileImages ==
    { Undefined, [kind |-> "data", path |-> <<>>], [kind |-> "http", path |-> <<>>],
      UrlPath(<<"uploads", "profiles", "f1">>), UrlPath(<<"uploads", "..", ".env">>),
      [kind |-> "other", path |-> <<>>] }

Bios == {"undefined", "b1"}

\* request bodies of PUT /users/:userId/profile
Patches ==
    { [profile_image |-> img, bio |-> "undefined"] : img \in ProfileImages }
    \cup { [profile_image |-> Undefined, bio |-> "b1"] }

(***************************************************************************)
(* updateUser (models/User.js): the whitelist filter and the UPDATE.       *)
(***************************************************************************)
allowedFields == {"username", "profile_image", "bio", "is_active", "is_verified"}

\* the value undefined of a key of updateData
Undef == <<>>

\* the filter without the whitelist test (a plausible slip)
UpdatesOfAnyKey(updateData) ==
    {key \in DOMAIN updateData : updateData[key] # Undef}

\* the keys of updateData that pass allowedFields.includes(key) &&
\* value !== undefined: the columns of the SET clause
UpdatesOf(updateData) ==
    {key \in DOMAIN updateData : key \in allowedFields /\ updateData[key] # Undef}

\* UPDATE users SET ${updates.join(', ')} WHERE id = ? AND deleted_at IS NULL
UpdatedUsers(userId, updateData) ==
    [i \in Ids |->
        IF i = userId /\ ~users[i].deleted
        THEN [col \in DOMAIN users[i] |->
                IF col \in UpdatesOf(updateData) THEN updateData[col][1]
                ELSE users[i][col]]
        ELSE users[i]]

\* the updateData object the profile route builds from the request body
ProfileUpdateData(patch) ==
    [key \in {k \in {"profile_image", "bio"} :
                 IF k = "bio" THEN patch.bio # "undefined"
                 ELSE patch.profile_image.kind # "undefined"} |->
        IF key = "bio" THEN <<patch.bio>> ELSE <<patch.profile_image>>]

\* updateData objects of direct calls: a whitelisted key next to uid; only
\* keys outside the whitelist; every other whitelisted key; a whitelisted
\* key whose value is undefined; the empty object
UpdateDatas ==
    { [username |-> <<"u2">>, uid |-> <<Lit(<<7, 7, 7, 7, 7, 7, 7>>)>>],
      [uid |-> <<Lit(<<7, 7, 7, 7, 7, 7, 7>>)>>, email |-> <<"e9">>, password_hash |-> <<"h9">>],
      [is_active |-> <<FALSE>>, is_verified |-> <<TRUE>>, bio |-> <<"b1">>,
       profile_image |-> <<UrlPath(<<"uploads", "profiles", "f1">>)>>],
      [bio |-> Undef, email |-> <<"e9">>],
      NoUpdateData }

\* a direct call updateUser(userId, updateData): the loop over
\* Object.entries(updateData) and the test updates.length === 0
UpdStart(p, userId, updateData) ==
    /\ Idle(p)
    /\ req' = [req EXCEPT ![p] = [NoReq EXCEPT !.route = "updateUser", !.entry = "call",
                                               !.userId = userId,
                                               !.updateData = updateData]]
    /\ loc' = [loc EXCEPT ![p] = NoLoc]
    /\ reply' = [reply EXCEPT ![p] = NoReply]
    /\ pc' = [pc EXCEPT ![p] = IF UpdatesOf(updateData) = {} THEN "getUserById"
                                ELSE "update"]
    /\ UNCHANGED <<dbVars, chartVars, txVars>>

\* await query(sql, values): the UPDATE, checked against the UNIQUE key of
\* username
updateUserWrite(p) ==
    /\ pc[p] = "update" /\ req[p].route = "updateUser"
    /\ LET id == req[p].userId
           updateData == req[p].updateData
       IN  IF /\ id \in ActiveIds
              /\ "username" \in UpdatesOf(updateData)
              /\ ~UsernameKeyFree(updateData["username"][1], id)
           THEN /\ loc' = [loc EXCEPT ![p].error = ErrDupEntry]
                /\ pc' = [pc EXCEPT ![p] = "done"]
                /\ UNCHANGED users
           ELSE /\ users' = UpdatedUsers(id, updateData)
                /\ pc' = [pc EXCEPT ![p] = "getUserById"]
                /\ UNCHANGED loc
    /\ UNCHANGED <<files, chartVars, txVars, req, reply>>

\* return getUserById(userId)
updateUserReturn(p) ==
    /\ pc[p] = "getUserById" /\ req[p].route = "updateUser"
    /\ loc' = [loc EXCEPT ![p].user = getUserById(req[p].userId)]
    /\ pc' = [pc EXCEPT ![p] = "done"]
    /\ UNCHANGED <<dbVars, chartVars, txVars, req, reply>>

(***************************************************************************)
(* PUT /users/:userId/profile (routes/users.js).                           *)
(***************************************************************************)
\* the ownership test left out (a plausible slip)
NotOwnProfileNever(principal, userId) == FALSE

\* request.user.id !== parseInt(userId, 10)
NotOwnProfile(principal, userId) == principal # userId

ProfStart(p, userId, patch, auth) ==
    /\ Idle(p)
    /\ req' = [req EXCEPT ![p] = [NoReq EXCEPT !.route = "profile", !.entry = "route",
                                               !.userId = userId, !.patch = patch,
                                               !.auth = auth]]
    /\ loc' = [loc EXCEPT ![p] = NoLoc]
    /\ pc' = [pc EXCEPT ![p] = "authenticate"]
    /\ reply' = [reply EXCEPT ![p] = NoReply]
    /\ UNCHANGED <<dbVars, chartVars, txVars>>

\* the handler up to and including the UPDATE of updateUser (or, with
\* nothing to update, updateUser's only query getUserById)
ProfHandler(p) ==
    /\ pc[p] = "handler" /\ req[p].route = "profile"
    /\ LET img == req[p].patch.profile_image
       IN  IF NotOwnProfile(loc[p].principal, req[p].userId)
           THEN Send(p, 403, "You can only update your own profile")
                /\ UNCHANGED <<users, loc>>
           ELSE IF img.kind \in {"other", "null"} \/ (img.kind = "path" /\ ~StartsWithUploads(img))
           THEN Send(p, 400, "Invalid profile_image format. Use URL or base64 string.")
                /\ UNCHANGED <<users, loc>>
           ELSE /\ users' = UpdatedUsers(req[p].userId, ProfileUpdateData(req[p].patch))
                /\ pc' = [pc EXCEPT ![p] = "getUserById"]
                /\ UNCHANGED <<loc, reply>>
    /\ UNCHANGED <<files, chartVars, txVars, req>>

\* updateUser's return getUserById(userId), then the route's reply
ProfReturn(p) ==
    /\ pc[p] = "getUserById" /\ req[p].route = "profile"
    /\ LET user == getUserById(req[p].userId)
       IN  /\ loc' = [loc EXCEPT ![p].user = user]
           /\ IF user = 0
              THEN Send(p, 404, "User not found")
              ELSE Send(p, 200, "Profile updated successfully")
    /\ UNCHANGED <<dbVars, chartVars, txVars, req>>

(***************************************************************************)
(* POST /users/:userId/profile/image (routes/users.js) with saveFile and   *)
(* deleteFile (utils/fileUpload.js).  req.file is "none" (no part),        *)
(* "image" (an allowed mimetype) or "text" (any other mimetype).           *)
(***************************************************************************)
Uploads == {"none", "image", "text"}

\* allowedMimeTypes.includes(file.mimetype)
isValidImage(file) == file = "image"

ImgStart(p, userId, file, auth) ==
    /\ Idle(p)
    /\ req' = [req EXCEPT ![p] = [NoReq EXCEPT !.route = "image", !.entry = "route",
                                               !.userId = userId, !.file = file,
                                               !.auth = auth]]
    /\ loc' = [loc EXCEPT ![p] = NoLoc]
    /\ pc' = [pc EXCEPT ![p] = "authenticate"]
    /\ reply' = [reply EXCEPT ![p] = NoReply]
    /\ UNCHANGED <<dbVars, chartVars, txVars>>

\* the 403 test, getUserById, request.file() and isValidImage
ImgHandler(p) ==
    /\ pc[p] = "handler" /\ req[p].route = "image"
    /\ LET user == getUserById(req[p].userId)
       IN  IF NotOwnProfile(loc[p].principal, req[p].userId)
           THEN Send(p, 403, "You can only upload your own profile image") /\ UNCHANGED loc
           ELSE IF user = 0
           THEN Send(p, 404, "User not found") /\ UNCHANGED loc
           ELSE IF req[p].file = "none"
           THEN Send(p, 400, "No file uploaded") /\ UNCHANGED loc
           ELSE IF ~isValidImage(req[p].file)
           THEN Send(p, 400, "Invalid image file. Allowed types: JPEG, PNG, GIF, WebP")
                /\ UNCHANGED loc
           ELSE /\ loc' = [loc EXCEPT ![p].user = user,
                                      ![p].oldImage = users[user].profile_image]
                /\ pc' = [pc EXCEPT ![p] =
                             IF StartsWithUploads(users[user].profile_image)
                             THEN "deleteFile" ELSE "saveFile"]
                /\ UNCHANGED reply
    /\ UNCHANGED <<dbVars, chartVars, txVars, req>>

\* deleteFile(user.profile_image): fs.unlink of the joined path; an unlink
\* that throws (no such file) is caught and answered false.  unlinked is
\* the boolean deleteFile returns.
deleteFile(p) ==
    /\ pc[p] = "deleteFile"
    /\ files' = files \ {DiskPath(loc[p].oldImage)}
    /\ loc' = [loc EXCEPT ![p].unlinked = DiskPath(loc[p].oldImage) \in files]
    /\ pc' = [pc EXCEPT ![p] = "saveFile"]
    /\ UNCHANGED <<users, chartVars, txVars, req, reply>>

\* saveFile(data, 'profiles'): a file under a fresh random name, or an I/O
\* error that the route's catch answers with 500
saveFile(p) ==
    /\ pc[p] = "saveFile"
    /\ \/ \E name \in FileNames :
            /\ <<"uploads", "profiles", name>> \notin files
            /\ files' = files \cup {<<"uploads", "profiles", name>>}
            /\ loc' = [loc EXCEPT ![p].fileUrl = UrlPath(<<"uploads", "profiles", name>>)]
            /\ pc' = [pc EXCEPT ![p] = "updateUser"]
            /\ UNCHANGED reply
       \/ /\ loc' = [loc EXCEPT ![p].error = "EIO"]
          /\ Send(p, 500, "Failed to upload image")
          /\ UNCHANGED files
    /\ UNCHANGED <<users, chartVars, txVars, req>>

\* updateUser(userId, { profile_image: fileUrl }): the UPDATE
ImgUpdate(p) ==
    /\ pc[p] = "updateUser"
    /\ users' = UpdatedUsers(req[p].userId, [profile_image |-> <<loc[p].fileUrl>>])
    /\ pc' = [pc EXCEPT ![p] = "getUserById"]
    /\ UNCHANGED <<files, chartVars, txVars, req, loc, reply>>

\* updateUser's return getUserById(userId), then the reply built from
\* updatedUser.profile_image (a TypeError when it is null)
ImgReturn(p) ==
    /\ pc[p] = "getUserById" /\ req[p].route = "image"
    /\ LET user == getUserById(req[p].userId)
       IN  IF user = 0
           THEN /\ loc' = [loc EXCEPT ![p].user = 0, ![p].error = ErrTypeError]
                /\ Send(p, 500, "Failed to upload image")
           ELSE /\ loc' = [loc EXCEPT ![p].user = user]
                /\ Send(p, 200, "Profile image uploaded successfully")
    /\ UNCHANGED <<dbVars, chartVars, txVars, req>>

(***************************************************************************)
(* deleteUser (models/User.js): a soft delete, one query.  No route calls  *)
(* it; it is an exported operation of the model layer.                     *)
(***************************************************************************)
deleteUser(userId) ==
    /\ userId \in ActiveIds
    /\ users' = [users EXCEPT ![userId].deleted = TRUE, ![userId].is_active = FALSE]
    /\ UNCHANGED <<files, reqVars, chartVars, txVars>>

(***************************************************************************)
(* GET /stock/chart/:symbol (routes/stock.js): candle extraction.          *)
(*                                                                         *)
(* A timestamp is the number hi * 10^6 + lo + frac / 1000 with             *)
(* 0 <= lo < 10^6 and 0 <= frac < 1000, so that 10^12 and the millisecond  *)
(* timestamps stay within the integers of the checker.  A price or volume  *)
(* is a JSON value: Null, or Num(v) with v in hundredths.                  *)
(***************************************************************************)
Million == 1000 * 1000

T(hi, lo, frac) == [hi |-> hi, lo |-> lo, frac |-> frac]

Null == <<>>
Num(v) == <<v>>

\* timestamp > 1e12
GreaterThan1e12(t) ==
    t.hi > Million \/ (t.hi = Million /\ (t.lo > 0 \/ t.frac > 0))

\* Math.floor(timestamp / 1000), exact for hi < 2 * 10^6
FloorDiv1000(t) ==
    LET q == t.hi * 1000 + (t.lo \div 1000)
    IN  T(q \div Million, q % Million, 0)

\* Math.floor(timestamp)
Floor(t) == T(t.hi, t.lo, 0)

\* the time of a candle: lines 107-115
CandleTime(t) == IF GreaterThan1e12(t) THEN FloorDiv1000(t) ELSE Floor(t)

\* quote.open[i] || 0: null, undefined (past the end) and 0 give 0
OrZero(arr, i) == IF i > Len(arr) \/ arr[i] = Null THEN 0 ELSE arr[i][1]

\* the row test with one price forgotten (a plausible slip)
KeepRowNoClose(open, high, low, close) == open > 0 /\ high > 0 /\ low > 0

\* if (open > 0 && high > 0 && low > 0 && close > 0)
KeepRow(open, high, low, close) == open > 0 /\ high > 0 /\ low > 0 /\ close > 0

\* the loop of lines 103-133: the candles of indices 1..n in index order
RECURSIVE CandleLoop(_, _, _)
CandleLoop(timestamps, quote, n) ==
    IF n = 0 THEN <<>>
    ELSE LET open == OrZero(quote.open, n)
             high == OrZero(quote.high, n)
             low == OrZero(quote.low, n)
             close == OrZero(quote.close, n)
             volume == OrZero(quote.volume, n)
             rest == CandleLoop(timestamps, quote, n - 1)
         IN  IF KeepRow(open, high, low, close)
             THEN Append(rest, [time |-> CandleTime(timestamps[n]), open |-> open,
                                high |-> high, low |-> low, close |-> close,
                                volume |-> volume])
             ELSE rest

\* the sign of a.time - b.time is negative
TimeLess(a, b) ==
    \/ a.time.hi < b.time.hi
    \/ a.time.hi = b.time.hi /\ a.time.lo < b.time.lo

\* insert c after the last element that is not greater than it
RECURSIVE InsertByTime(_, _)
InsertByTime(sorted, c) ==
    IF sorted = <<>> THEN <<c>>
    ELSE IF TimeLess(c, sorted[Len(sorted)])
    THEN Append(InsertByTime(SubSeq(sorted, 1, Len(sorted) - 1), c), sorted[Len(sorted)])
    ELSE Append(sorted, c)

\* the sort left out (a plausible slip)
Unsorted(candles) == candles

\* candles.sort((a, b) => a.time - b.time): a stable sort
RECURSIVE SortByTime(_)
SortByTime(candles) ==
    IF candles = <<>> THEN <<>>
    ELSE InsertByTime(SortByTime(SubSeq(candles, 1, Len(candles) - 1)),
                      candles[Len(candles)])

\* the response.ok test left out (a plausible slip)
ResponseOkAlways(u) == TRUE

\* response.ok: the status is in the range 200-299
ResponseOk(u) == u.status \in 200..299

\* an error message: its text and the status it embeds (0 when none)
Message(text, status) == [text |-> text, status |-> status]
NoMessage == Message("", 0)

\* new Error(`HTTP error! status: ${response.status}`)
HttpError(u) == Message("HTTP error! status: ", u.status)
FetchFailed == Message("fetch failed", 0)
TypeError == Message("Cannot read properties of undefined", 0)

\* reply.code(code).send({ error: message })
Failure(code, message) == [code |-> code, error |-> message, candles |-> <<>>]

\* the handler's answer to an upstream payload: lines 76-141
ChartReply(u) ==
    IF u.shape = "fetchFailed" THEN Failure(500, FetchFailed)
    ELSE IF ~ResponseOk(u) THEN Failure(500, HttpError(u))
    ELSE IF u.shape \in {"noChart", "noResult", "emptyResult"}
    THEN Failure(404, Message("No data found", 0))
    ELSE IF u.shape = "noIndicators" THEN Failure(500, TypeError)
    ELSE IF u.shape \in {"noQuote", "noOpen"} \/ Len(u.open) = 0
    THEN Failure(404, Message("No quote data found", 0))
    ELSE IF u.shape = "noHigh" /\ Len(u.timestamp) > 0
    THEN Failure(500, TypeError)
    ELSE [code |-> 200, error |-> NoMessage,
          candles |-> SortByTime(CandleLoop(u.timestamp, u, Len(u.timestamp)))]

\* upstream timestamps: the seconds 100, 200 and 300, the milliseconds
\* 1700000000000, and 10^12
TsSamples ==
    { T(0, 100, 0), T(0, 200, 0), T(0, 300, 0), T(1700000, 0, 0), T(Million, 0, 0) }

\* upstream rows <<open, high, low, close, volume>>: two complete rows (one
\* without volume), the all-zero row, a row without close
RowSamples ==
    { <<Num(1000), Num(1100), Num(900), Num(1050), Num(100)>>,
      <<Num(3000), Num(3100), Num(2900), Num(3050), Null>>,
      <<Num(0), Num(0), Num(0), Num(0), Num(0)>>,
      <<Num(1000), Num(1100), Num(900), Null, Num(100)>> }

Column(rows, k) == [i \in 1..Len(rows) |-> rows[i][k]]

\* the payload with these timestamps and rows
Payload(shape, timestamps, rows) ==
    [status |-> 200, shape |-> shape, timestamp |-> timestamps,
     open |-> Column(rows, 1), high |-> Column(rows, 2), low |-> Column(rows, 3),
     close |-> Column(rows, 4), volume |-> Column(rows, 5)]

SeqsUpTo(S, n) == UNION {[1..k -> S] : k \in 0..n}

Shapes == {"fetchFailed", "noChart", "noResult", "emptyResult", "noIndicators",
           "noQuote", "noOpen", "noHigh"}

\* the statuses of an answer that is not ok
ErrorStatuses == {404, 500}

\* the payloads of every shape, and the answers that are not ok
ShapePayloads ==
    LET one == Payload("full", <<T(0, 100, 0)>>,
                       <<<<Num(1000), Num(1100), Num(900), Num(1050), Num(100)>>>>)
    IN  { [one EXCEPT !.shape = shape] : shape \in Shapes }
        \cup { [one EXCEPT !.status = status] : status \in ErrorStatuses }

Payloads ==
    { Payload("full", ts, rows) :
        <<ts, rows>> \in {x \in SeqsUpTo(TsSamples, MaxLen) \X SeqsUpTo(RowSamples, MaxLen) :
                             Len(x[1]) = Len(x[2])} }
    \cup ShapePayloads

(***************************************************************************)
(* The requests to the market routes and the upstream requests they issue. *)
(* A query parameter the client leaves out is "undefined".  Date.now() is  *)
(* a number of milliseconds, written like a timestamp.                     *)
(***************************************************************************)
MarketRequest(route, symbol, interval, now) ==
    [route |-> route, symbol |-> symbol, interval |-> interval, now |-> now]

NoMarket == MarketRequest("none", "", "undefined", T(0, 0, 0))

\* the values of Date.now()
Clock == {T(1700000, 1, 0), T(1700000, 2, 0)}

\* const { interval = '1m' } = request.query
Default(v, d) == IF v = "undefined" THEN d ELSE v

\* the URL of an upstream request: bust is the value of the parameter _,
\* Null when the URL has none
Url(host, symbol, interval, range, limit, bust) ==
    [host |-> host, symbol |-> symbol, interval |-> interval, range |-> range,
     limit |-> limit, bust |-> bust]

NoFetch == Url("", "", "", "", "", Null)

\* line 14
PriceUrl(m) == Url("query1.finance.yahoo.com", m.symbol, "1m", "1d", "", m.now)

\* lines 69-74, the range left to its default
ChartUrl(m) ==
    Url("query1.finance.yahoo.com", m.symbol, Default(m.interval, "1m"), "1d", "", m.now)

\* GET /stock/chart/:symbol: the upstream request, then the answer
StockChart ==
    /\ market.route = "chart"
    /\ chart.code = 0
    /\ fetched' = ChartUrl(market)
    /\ chart' = ChartReply(upstream)
    /\ UNCHANGED <<dbVars, reqVars, upstream, market, txVars>>

(***************************************************************************)
(* GET /stock/price/:symbol (routes/stock.js).  A field of meta is a JSON  *)
(* value: Null when the payload has none, or Num(v), v in hundredths for a *)
(* price and in seconds for regularMarketTime.                             *)
(***************************************************************************)
\* a value that || passes over: undefined, null and 0
Falsy(v) == v = Null \/ v = Num(0)

\* a || b
OrElse(a, b) == IF Falsy(a) THEN b ELSE a

\* the priority with the generic field forgotten (a plausible slip)
PriceNoCurrent(meta) ==
    OrElse(meta.regularMarketPrice, OrElse(meta.previousClose, Num(0)))

\* meta.regularMarketPrice || meta.currentPrice || meta.previousClose || 0
Price(meta) ==
    OrElse(meta.regularMarketPrice,
           OrElse(meta.currentPrice, OrElse(meta.previousClose, Num(0))))

\* meta.previousClose || price
PreviousClose(meta, price) == OrElse(meta.previousClose, price)

\* a quotient num / den that is not evaluated
Ratio(num, den) == [num |-> num, den |-> den]

\* the percentage without its guard (a plausible slip)
ChangePercentUnguarded(change, previousClose) == Ratio(change * 100, previousClose)

\* previousClose > 0 ? (change / previousClose) * 100 : 0
ChangePercent(change, previousClose) ==
    IF previousClose > 0 THEN Ratio(change * 100, previousClose) ELSE Ratio(0, 1)

\* seconds * 1000, as a number of milliseconds
TimesThousand(seconds) == T(seconds \div 1000, (seconds % 1000) * 1000, 0)

\* price.toFixed(2) of a number of hundredths
ToFixed2(v) ==
    LET abs == IF v < 0 THEN 0 - v ELSE v
    IN  [negative |-> v < 0, whole |-> abs \div 100, cents |-> abs % 100]

\* meta.marketState === 'REGULAR' || ... 'PRE' || ... 'POST'
IsMarketOpen(meta) == meta.marketState \in {"REGULAR", "PRE", "POST"}

\* lines 35-59: the quote of a result's meta; previousClose is the
\* handler's local, which the response does not carry
Quote(meta, now) ==
    LET price == Price(meta)
        previousClose == PreviousClose(meta, price)
        change == price[1] - previousClose[1]
    IN  [code |-> 200, error |-> NoMessage, candles |-> <<>>,
         price |-> price[1],
         priceString |-> ToFixed2(price[1]),
         previousClose |-> previousClose[1],
         priceChange |-> change,
         priceChangePercent |-> ChangePercent(change, previousClose[1]),
         high24h |-> OrElse(meta.regularMarketDayHigh, OrElse(meta.dayHigh, price))[1],
         low24h |-> OrElse(meta.regularMarketDayLow, OrElse(meta.dayLow, price))[1],
         volume24h |-> OrElse(meta.regularMarketVolume, OrElse(meta.volume, Num(0)))[1],
         marketTime |-> IF Falsy(meta.regularMarketTime) THEN now
                        ELSE TimesThousand(meta.regularMarketTime[1]),
         isMarketOpen |-> IsMarketOpen(meta)]

\* the handler's answer to an upstream payload: lines 16-63
PriceReply(u, now) ==
    IF u.shape = "fetchFailed" THEN Failure(500, FetchFailed)
    ELSE IF ~ResponseOk(u) THEN Failure(500, HttpError(u))
    ELSE IF u.shape \in {"noChart", "noResult", "emptyResult"}
    THEN Failure(404, Message("No data found", 0))
    ELSE IF u.shape = "noMeta" THEN Failure(500, TypeError)
    ELSE Quote(u.meta, now)

\* the values of a price field: absent, 0, 100.00 and 110.00
PriceSamples == {Null, Num(0), Num(10000), Num(11000)}

\* the fields of meta the price does not depend on: all absent, or all
\* present (regularMarketTime in seconds)
MetaRest ==
    { [regularMarketDayHigh |-> Null, dayHigh |-> Null, regularMarketDayLow |-> Null,
       dayLow |-> Null, regularMarketVolume |-> Null, volume |-> Null,
       regularMarketTime |-> Null, marketState |-> "CLOSED"],
      [regularMarketDayHigh |-> Num(12000), dayHigh |-> Num(11900),
       regularMarketDayLow |-> Num(9000), dayLow |-> Num(9100),
       regularMarketVolume |-> Num(500), volume |-> Num(400),
       regularMarketTime |-> Num(1700000000), marketState |-> "REGULAR"] }

Meta(rmp, cp, prev, rest) ==
    [regularMarketPrice |-> rmp, currentPrice |-> cp, previousClose |-> prev] @@ rest

Metas ==
    { Meta(rmp, cp, prev, rest) :
        rmp \in PriceSamples, cp \in PriceSamples,
        prev \in PriceSamples \cup {Num(-500)}, rest \in MetaRest }

QuotePayload(status, shape, meta) == [status |-> status, shape |-> shape, meta |-> meta]

QuoteShapes == {"fetchFailed", "noChart", "noResult", "emptyResult", "noMeta"}

QuotePayloads ==
    LET one == Meta(Num(11000), Null, Num(10000), CHOOSE rest \in MetaRest : rest.marketState = "CLOSED")
    IN  { QuotePayload(200, "full", meta) : meta \in Metas }
        \cup { QuotePayload(200, shape, one) : shape \in QuoteShapes }
        \cup { QuotePayload(status, "full", one) : status \in ErrorStatuses }

\* GET /stock/price/:symbol: the upstream request, then the answer
StockPrice ==
    /\ market.route = "price"
    /\ chart.code = 0
    /\ fetched' = PriceUrl(market)
    /\ chart' = PriceReply(upstream, market.now)
    /\ UNCHANGED <<dbVars, reqVars, upstream, market, txVars>>

(***************************************************************************)
(* GET /futures/chart/:symbol (routes/stock.js).  A kline is the row       *)
(* <<openTime, open, high, low, close, volume>>: openTime a number of      *)
(* milliseconds, the others strings (sequences of character codes), or it  *)
(* is Null.                                                                *)
(***************************************************************************)
cryptoFutures == {"BTC", "ETH", "XRP", "BNB", "SOL", "ADA", "DOGE", "DOT"}

\* the suffix appended to every symbol (a plausible slip)
FuturesSymbolAlways(symbol) == symbol \o "USDT"

\* cryptoFutures.includes(symbol) ? `${symbol}USDT` : symbol
FuturesSymbol(symbol) == IF symbol \in cryptoFutures THEN symbol \o "USDT" ELSE symbol

\* the interval passed through (a plausible slip)
BinanceIntervalVerbatim(interval) == interval

\* line 154
BinanceInterval(interval) ==
    IF interval = "1m" THEN "1m"
    ELSE IF interval = "5m" THEN "5m"
    ELSE IF interval = "15m" THEN "15m"
    ELSE IF interval = "1h" THEN "1h"
    ELSE "1d"

\* lines 147-155: the limit left to its default; the URL has no parameter _
FuturesUrl(m) ==
    Url("fapi.binance.com", FuturesSymbol(m.symbol),
        BinanceInterval(Default(m.interval, "1m")), "", "500", Null)

\* a parsed number, or NaN
Float(v) == [nan |-> FALSE, value |-> v]
NaN == [nan |-> TRUE, value |-> 0]

\* the length of the longest prefix of s made of digits
RECURSIVE DigitPrefix(_, _)
DigitPrefix(s, n) ==
    IF n < Len(s) /\ IsDigitChar(s[n + 1]) THEN DigitPrefix(s, n + 1) ELSE n

\* parseFloat(s) of a string without sign, point or exponent: the number
\* its leading digits write, NaN when it has none
parseFloat(s) ==
    IF DigitPrefix(s, 0) = 0 THEN NaN
    ELSE Float(NumericValue(SubSeq(s, 1, DigitPrefix(s, 0))))

\* the candle of one kline: lines 170-177
KlineCandle(kline) ==
    [time |-> FloorDiv1000(kline[1]), open |-> parseFloat(kline[2]),
     high |-> parseFloat(kline[3]), low |-> parseFloat(kline[4]),
     close |-> parseFloat(kline[5]), volume |-> parseFloat(kline[6])]

\* the rows with an unusable number dropped (a plausible slip)
KlineMapFiltered(klines) ==
    SelectSeq([i \in 1..Len(klines) |-> KlineCandle(klines[i])],
              LAMBDA c : ~c.open.nan /\ ~c.close.nan)

\* data.map(kline => ...)
KlineMap(klines) == [i \in 1..Len(klines) |-> KlineCandle(klines[i])]

\* the handler's answer to an upstream payload: lines 157-183
FuturesReply(u) ==
    IF u.shape = "fetchFailed" THEN Failure(500, FetchFailed)
    ELSE IF ~ResponseOk(u) THEN Failure(500, HttpError(u))
    ELSE IF u.shape = "object" THEN Failure(500, Message("data.map is not a function", 0))
    ELSE IF \E i \in 1..Len(u.klines) : u.klines[i] = Null THEN Failure(500, TypeError)
    ELSE [code |-> 200, error |-> NoMessage, candles |-> KlineMap(u.klines)]

\* openTime: 1700000060000, 1700000000000 and 1699999999999
OpenTimes == {T(1700000, 60000, 0), T(1700000, 0, 0), T(1699999, 999999, 0)}

\* klines: a well-formed row at each openTime, a row whose open is not a
\* number and whose close is "0", and null
KlineSamples ==
    { <<t, Lit(<<5, 0>>), Lit(<<6, 0>>), Lit(<<4, 0>>), Lit(<<5, 5>>), Lit(<<7>>)>> :
        t \in OpenTimes }
    \cup { <<T(1700000, 0, 0), <<97>>, Lit(<<6, 0>>), Lit(<<4, 0>>), Lit(<<0>>), <<>>>>, Null }

KlinePayload(status, shape, klines) == [status |-> status, shape |-> shape, klines |-> klines]

KlinePayloads ==
    { KlinePayload(200, "array", klines) : klines \in SeqsUpTo(KlineSamples, MaxLen) }
    \cup { KlinePayload(200, shape, <<>>) : shape \in {"fetchFailed", "object"} }
    \cup { KlinePayload(status, "array", <<>>) : status \in ErrorStatuses }

\* GET /futures/chart/:symbol: the upstream request, then the answer
FuturesChart ==
    /\ market.route = "futures"
    /\ chart.code = 0
    /\ fetched' = FuturesUrl(market)
    /\ chart' = FuturesReply(upstream)
    /\ UNCHANGED <<dbVars, reqVars, upstream, market, txVars>>

(***************************************************************************)
(* transaction(callback) (config/database.js) and the connection pool.     *)
(* The callback is the caller's: it returns or it throws.  Every call on   *)
(* the connection (beginTransaction, commit, rollback) resolves or         *)
(* rejects; pool.getConnection() resolves when a connection is free,       *)
(* waits while none is, or rejects.                                        *)
(***************************************************************************)
\* connectionLimit: 10
connectionLimit == 10

NoTx == [pc |-> "idle", held |-> FALSE, acquired |-> FALSE, released |-> 0,
         callback |-> "none", commit |-> "none", rollback |-> "none",
         caught |-> "none", thrown |-> "none", outcome |-> "none"]

\* the count of checked-out connections when release() is left out (a
\* plausible slip)
ReleaseLeak(inUse) == inUse

\* the count of checked-out connections after connection.release()
Release(inUse) == inUse - 1

\* a call of transaction(callback) begins on slot p
TxStart(p) ==
    /\ tx[p].pc \in {"idle", "done"}
    /\ tx' = [tx EXCEPT ![p] = [NoTx EXCEPT !.pc = "getConnection"]]
    /\ UNCHANGED <<dbVars, reqVars, chartVars, pool>>

\* const connection = await pool.getConnection(), outside the try
getConnection(p) ==
    /\ tx[p].pc = "getConnection"
    /\ \/ /\ pool < connectionLimit
          /\ pool' = pool + 1
          /\ tx' = [tx EXCEPT ![p].held = TRUE, ![p].acquired = TRUE,
                              ![p].pc = "beginTransaction"]
       \/ /\ tx' = [tx EXCEPT ![p].thrown = "getConnection", ![p].outcome = "thrown",
                              ![p].pc = "done"]
          /\ UNCHANGED pool
    /\ UNCHANGED <<dbVars, reqVars, chartVars>>

\* await connection.beginTransaction()
beginTransaction(p) ==
    /\ tx[p].pc = "beginTransaction"
    /\ \/ tx' = [tx EXCEPT ![p].pc = "callback"]
       \/ tx' = [tx EXCEPT ![p].caught = "beginTransaction", ![p].pc = "rollback"]
    /\ UNCHANGED <<dbVars, reqVars, chartVars, pool>>

\* const result = await callback(connection)
callback(p) ==
    /\ tx[p].pc = "callback"
    /\ \/ tx' = [tx EXCEPT ![p].callback = "returned", ![p].pc = "commit"]
       \/ tx' = [tx EXCEPT ![p].callback = "threw", ![p].caught = "callback",
                           ![p].pc = "rollback"]
    /\ UNCHANGED <<dbVars, reqVars, chartVars, pool>>

\* await connection.commit(); return result
commit(p) ==
    /\ tx[p].pc = "commit"
    /\ \/ tx' = [tx EXCEPT ![p].commit = "ok", ![p].pc = "release"]
       \/ tx' = [tx EXCEPT ![p].commit = "threw", ![p].caught = "commit",
                           ![p].pc = "rollback"]
    /\ UNCHANGED <<dbVars, reqVars, chartVars, pool>>

\* catch (error) { await connection.rollback(); throw error; }
rollback(p) ==
    /\ tx[p].pc = "rollback"
    /\ \/ tx' = [tx EXCEPT ![p].rollback = "ok", ![p].thrown = tx[p].caught,
                           ![p].pc = "release"]
       \/ tx' = [tx EXCEPT ![p].rollback = "threw", ![p].thrown = "rollback",
                           ![p].pc = "release"]
    /\ UNCHANGED <<dbVars, reqVars, chartVars, pool>>

\* finally { connection.release(); }, then the call returns or throws
release(p) ==
    /\ tx[p].pc = "release"
    /\ pool' = Release(pool)
    /\ tx' = [tx EXCEPT ![p].held = FALSE,
                        ![p].released = tx[p].released + 1,
                        ![p].outcome = IF tx[p].thrown = "none" THEN "returned" ELSE "thrown",
                        ![p].pc = "done"]
    /\ UNCHANGED <<dbVars, reqVars, chartVars>>

(***************************************************************************)
(* Specifications.                                                         *)
(***************************************************************************)
NoUpstream == [status |-> 0, shape |-> "none", timestamp |-> <<>>,
               open |-> <<>>, high |-> <<>>, low |-> <<>>, close |-> <<>>,
               volume |-> <<>>]
NoChart == [code |-> 0, error |-> NoMessage, candles |-> <<>>]

Init ==
    /\ users = <<>>
    /\ files = {<<".env">>}
    /\ pc = [p \in Procs |-> "idle"]
    /\ req = [p \in Procs |-> NoReq]
    /\ loc = [p \in Procs |-> NoLoc]
    /\ reply = [p \in Procs |-> NoReply]
    /\ upstream = NoUpstream
    /\ chart = NoChart
    /\ market = NoMarket
    /\ fetched = NoFetch
    /\ pool = 0
    /\ tx = [p \in Procs |-> NoTx]

UserIds == 1..MaxUsers

\* the steps of the register and UID handlers on slot p
UidHandlers(p, bodies, cap, uids, entries) ==
    \/ \E body \in bodies : RegStart(p, body)
    \/ RegEmailExists(p)
    \/ RegUsernameExists(p)
    \/ RegPhoneNumberExists(p)
    \/ generateUniqueUID(p, cap)
    \/ createUserInsert(p)
    \/ createUserReturn(p)
    \/ RegSetCode(p)
    \/ \E userId \in UserIds, uid \in uids, entry \in entries :
          UidStart(p, userId, uid, entry, NoAuth)
    \/ updateUserUIDCheck(p)
    \/ updateUserUIDWrite(p)
    \/ updateUserUIDReturn(p)

\* register bodies of two people who give the same phone number
ConcBodies == {b \in Bodies : b.email \in {"e1", "e4"}}

\* the requested uid the allocator can draw as well
ConcUIDs == {Candidate(0)}

\* register bodies of two people, and the two malformed ones
AllocBodies == {b \in Bodies : b.email \in {"e1", "e2"} \/ ~b.emailFormatOk \/ ~b.birthDateOk}

\* overlapping requests on every slot
Next ==
    \/ \E p \in Procs : UidHandlers(p, ConcBodies, MaxCollisions, ConcUIDs, {"route"})
    \/ \E userId \in UserIds : deleteUser(userId)

Spec == Init /\ [][Next]_vars

\* one request at a time, the allocator's loop to its full budget
NextAlloc ==
    \/ UidHandlers("p1", AllocBodies, maxAttempts, NewUIDs, Entries)
    \/ \E userId \in UserIds : deleteUser(userId)

SpecAlloc == Init /\ [][NextAlloc]_vars

\* the ids of the profile requests: the registered user and a stranger,
\* as :userId and as principal
ProfileIds == {1, 2}
ProfileAuths == {auth \in Auths : auth.id \in {0} \cup ProfileIds}

\* the steps of the profile and image handlers on slot p
ProfileHandlers(p) ==
    \/ \E userId \in ProfileIds, patch \in Patches, auth \in ProfileAuths :
          ProfStart(p, userId, patch, auth)
    \/ authenticate(p)
    \/ ProfHandler(p)
    \/ ProfReturn(p)
    \/ \E userId \in ProfileIds, file \in Uploads, auth \in ProfileAuths :
          ImgStart(p, userId, file, auth)
    \/ ImgHandler(p)
    \/ deleteFile(p)
    \/ saveFile(p)
    \/ ImgUpdate(p)
    \/ ImgReturn(p)

ProfileUIDs == {Lit(<<0, 0, 0, 0, 0, 0, 1>>)}
ProfileBodies == {b \in Bodies : b.email = "e1"}

\* one request at a time over every route that writes a user record
NextProfile ==
    \/ \E body \in ProfileBodies : RegStart("p1", body)
    \/ RegEmailExists("p1")
    \/ RegUsernameExists("p1")
    \/ RegPhoneNumberExists("p1")
    \/ generateUniqueUID("p1", MaxCollisions)
    \/ createUserInsert("p1")
    \/ createUserReturn("p1")
    \/ RegSetCode("p1")
    \/ \E userId \in ProfileIds, uid \in ProfileUIDs, auth \in ProfileAuths :
          UidStart("p1", userId, uid, "route", auth)
    \/ updateUserUIDCheck("p1")
    \/ updateUserUIDWrite("p1")
    \/ updateUserUIDReturn("p1")
    \/ ProfileHandlers("p1")
    \/ \E userId \in UserIds : deleteUser(userId)

SpecProfile == Init /\ [][NextProfile]_vars

\* the chart proxy: any upstream payload, then the handler
InitChart ==
    /\ users = <<>>
    /\ files = {<<".env">>}
    /\ pc = [p \in Procs |-> "idle"]
    /\ req = [p \in Procs |-> NoReq]
    /\ loc = [p \in Procs |-> NoLoc]
    /\ reply = [p \in Procs |-> NoReply]
    /\ upstream \in Payloads
    /\ chart = NoChart
    /\ market = MarketRequest("chart", "AAPL", "undefined", T(1700000, 1, 0))
    /\ fetched = NoFetch
    /\ pool = 0
    /\ tx = [p \in Procs |-> NoTx]

NextChart == StockChart

SpecChart == InitChart /\ [][NextChart]_vars

\* the symbols and intervals of the requests to the market routes
Symbols == cryptoFutures \cup {"AAPL", "btc", "BTCUSDT"}
Intervals == {"undefined", "1m", "5m", "15m", "1h", "30m", "1d"}

\* a request to one of the three market routes and the provider's answer
MarketInputs ==
    ({ MarketRequest("price", "AAPL", "undefined", now) : now \in Clock } \X QuotePayloads)
    \cup ({ MarketRequest("chart", symbol, interval, now) :
                symbol \in {"AAPL"}, interval \in {"undefined", "5m"}, now \in Clock }
          \X ShapePayloads)
    \cup ({ MarketRequest("futures", symbol, interval, now) :
                symbol \in Symbols, interval \in Intervals, now \in Clock }
          \X KlinePayloads)

InitMarket ==
    /\ users = <<>>
    /\ files = {<<".env">>}
    /\ pc = [p \in Procs |-> "idle"]
    /\ req = [p \in Procs |-> NoReq]
    /\ loc = [p \in Procs |-> NoLoc]
    /\ reply = [p \in Procs |-> NoReply]
    /\ \E input \in MarketInputs : market = input[1] /\ upstream = input[2]
    /\ chart = NoChart
    /\ fetched = NoFetch
    /\ pool = 0
    /\ tx = [p \in Procs |-> NoTx]

NextMarket ==
    \/ StockPrice
    \/ StockChart
    \/ FuturesChart

\* the three market routes, one request each
SpecMarket == InitMarket /\ [][NextMarket]_vars

\* one request at a time over registration and email verification; the
\* query that stores the verification code may fail
NextRegister ==
    \/ \E body \in Bodies : RegStart("p1", body)
    \/ RegEmailExists("p1")
    \/ RegUsernameExists("p1")
    \/ RegPhoneNumberExists("p1")
    \/ generateUniqueUID("p1", MaxCollisions)
    \/ createUserInsert("p1")
    \/ createUserReturn("p1")
    \/ RegSetCode("p1")
    \/ RegSetCodeThrows("p1")
    \/ \E email \in VerifyEmails : SendStart("p1", email)
    \/ SendEmailExists("p1")
    \/ SendSetCode("p1")
    \/ \E email \in VerifyEmails, code \in Codes : VerifyStart("p1", email, code)
    \/ verifyEmailCode("p1")
    \/ \E userId \in UserIds : deleteUser(userId)

SpecRegister == Init /\ [][NextRegister]_vars

\* register bodies of two people
UpdateBodies == {b \in Bodies : b.email \in {"e1", "e2"}}

\* one request or direct call of updateUser at a time
NextUpdate ==
    \/ \E body \in UpdateBodies : RegStart("p1", body)
    \/ RegEmailExists("p1")
    \/ RegUsernameExists("p1")
    \/ RegPhoneNumberExists("p1")
    \/ generateUniqueUID("p1", MaxCollisions)
    \/ createUserInsert("p1")
    \/ createUserReturn("p1")
    \/ RegSetCode("p1")
    \/ \E userId \in ProfileIds, updateData \in UpdateDatas :
          UpdStart("p1", userId, updateData)
    \/ updateUserWrite("p1")
    \/ updateUserReturn("p1")
    \/ \E userId \in UserIds : deleteUser(userId)

SpecUpdate == Init /\ [][NextUpdate]_vars

\* overlapping calls of transaction(callback)
NextTx ==
    \E p \in Procs :
        \/ TxStart(p)
        \/ getConnection(p)
        \/ beginTransaction(p)
        \/ callback(p)
        \/ commit(p)
        \/ rollback(p)
        \/ release(p)

SpecTx == Init /\ [][NextTx]_vars

(***************************************************************************)
(* Properties.                                                             *)
(***************************************************************************)
\* a string of exactly 7 decimal digits
SevenDigits(s) == Len(s) = 7 /\ \A i \in 1..7 : s[i] \in 48..57

\* slot p runs createUser and generateUniqueUID has returned its uid
UidReturned(p) ==
    /\ req[p].route = "register"
    /\ pc[p] \in {"insert", "getUserById", "setEmailVerificationCode"}

\* C1: every UID returned by generateUniqueUID, and the uid of the row that
\* createUser then inserts, is a string of exactly 7 decimal digits whose
\* value lies in 1000000..9999999
C1_UidSevenDigits ==
    \A p \in Procs :
        UidReturned(p) =>
            /\ SevenDigits(loc[p].uid)
            /\ NumericValue(loc[p].uid) >= 1000000
            /\ NumericValue(loc[p].uid) <= 9999999
            /\ pc[p] = "getUserById" => users[loc[p].insertId].uid = loc[p].uid

\* the largest value of the random draw has been inserted
C1_Witness ==
    \E p \in Procs :
        /\ UidReturned(p) /\ pc[p] = "getUserById"
        /\ NumericValue(users[loc[p].insertId].uid) = 9999999

\* C2: when the k-th candidate (k in 1..100) is the first one that does not
\* exist, generateUniqueUID returns it after exactly k checks; it fails only
\* when the last candidate checked existed
C2_ReturnsFirstFreeCandidate ==
    \A p \in Procs :
        req[p].route = "register" =>
            /\ (loc[p].attempts >= 1 /\ ~loc[p].exists) =>
                   (loc[p].error # ErrExhausted /\ pc[p] # "generateUniqueUID")
            /\ loc[p].error = ErrExhausted => loc[p].exists

\* C3: when every candidate drawn exists, generateUniqueUID leaves its loop
\* after exactly 100 checks and throws; createUser inserts nothing, the
\* users table is unchanged and the register request ends with 500
C3_ExhaustionFails ==
    [][\A p \in Procs :
          pc[p] = "generateUniqueUID" =>
              /\ pc'[p] = "generateUniqueUID" => loc'[p].attempts < 100
              /\ (pc'[p] # "generateUniqueUID" /\ loc'[p].exists) =>
                    /\ loc'[p].attempts = 100
                    /\ loc'[p].error = ErrExhausted
                    /\ loc'[p].insertId = 0
                    /\ users' = users
                    /\ pc'[p] = "done"
                    /\ reply'[p].code = 500]_vars

\* a registration failed after 100 candidates that all existed
C3_Witness ==
    \E p \in Procs :
        /\ req[p].route = "register" /\ pc[p] = "done"
        /\ loc[p].error = ErrExhausted /\ loc[p].exists
        /\ loc[p].attempts = 100 /\ reply[p].code = 500

\* C4: no two rows of the users table carry the same uid, under any
\* interleaving of createUser and updateUserUID
C4_UidUnique ==
    \A i \in Ids : \A j \in Ids : i # j => users[i].uid # users[j].uid

\* a registration passed the allocator's check and its INSERT was then
\* rejected by the UNIQUE key of uid alone
C4_Witness ==
    \E p \in Procs :
        /\ req[p].route = "register" /\ loc[p].error = ErrDupEntry
        /\ ~loc[p].exists
        /\ EmailKeyFree(req[p].body.email, 0)
        /\ UsernameKeyFree(req[p].body.username, 0)

\* the request on slot p carries no token that verifies
Unauthenticated(p) ==
    /\ req[p].route \in {"uid", "profile", "image"}
    /\ req[p].entry = "route"
    /\ req[p].auth.kind # "valid"

\* C5: no step of a request without a verified bearer token on PUT
\* /users/:userId/uid, PUT /users/:userId/profile or POST
\* /users/:userId/profile/image changes a user record or a file
C5_NoUnauthenticatedWrite ==
    [][\A p \in Procs :
          (Unauthenticated(p) /\ pc[p] # "done" /\ pc'[p] # pc[p]) =>
              (users' = users /\ files' = files)]_vars

\* C6: updateUserUID passes exactly the strings of 7 decimal digits: any
\* other newUID ends the call at once with the validation error (400 on
\* the route) and is never written; a string of 7 digits, zero padded or
\* not, never meets the validation error
C6_FormatValidation ==
    /\ \A i \in Ids : SevenDigits(users[i].uid)
    /\ \A p \in Procs :
          req[p].route = "uid" =>
              IF SevenDigits(req[p].uid)
              THEN /\ loc[p].error # ErrUidFormat
                   /\ reply[p].message # "body/uid must match pattern"
              ELSE /\ pc[p] = "done"
                   /\ req[p].entry = "route" => reply[p].code = 400
                   /\ req[p].entry = "call" => loc[p].error = ErrUidFormat

\* a zero-padded uid has been written and a call with a malformed uid has
\* failed with the validation error
C6_Witness ==
    /\ \E i \in Ids : SevenDigits(users[i].uid) /\ NumericValue(users[i].uid) = 1
    /\ \E p \in Procs :
          /\ req[p].route = "uid" /\ req[p].entry = "call"
          /\ ~SevenDigits(req[p].uid)
          /\ loc[p].error = ErrUidFormat

\* another active user holds uid
HeldByOtherActive(uid, userId) ==
    \E i \in ActiveIds : i # userId /\ users[i].uid = uid

\* C7: updateUserUID(userId, newUID) for an active userId fails with 'UID
\* already exists' and changes nothing when another active user holds
\* newUID; when none does, it succeeds, sets that user's uid to newUID and
\* changes no other row
C7_UniquenessRevalidated ==
    [][\A p \in Procs :
          /\ (pc[p] = "getUserByUID" /\ pc'[p] # pc[p]
                 /\ HeldByOtherActive(req[p].uid, req[p].userId)) =>
                (loc'[p].error = ErrUidExists /\ users' = users)
          /\ (pc[p] = "updateUid" /\ pc'[p] # pc[p]
                 /\ req[p].userId \in ActiveIds
                 /\ ~HeldByOtherActive(req[p].uid, req[p].userId)) =>
                /\ loc'[p].error = ""
                /\ users'[req[p].userId].uid = req[p].uid
                /\ \A i \in Ids \ {req[p].userId} : users'[i] = users[i]]_vars

\* the JSON value is a number greater than 0
Positive(arr, i) == i <= Len(arr) /\ arr[i] # Null /\ arr[i][1] > 0

\* the indices of the timestamp array whose four prices are all positive
KeptIndices ==
    {i \in 1..Len(upstream.timestamp) :
        /\ Positive(upstream.open, i) /\ Positive(upstream.high, i)
        /\ Positive(upstream.low, i) /\ Positive(upstream.close, i)}

\* candle c carries the prices of index i
FromIndex(c, i) ==
    /\ c.open = upstream.open[i][1] /\ c.high = upstream.high[i][1]
    /\ c.low = upstream.low[i][1] /\ c.close = upstream.close[i][1]

\* C8: the candles of a 200 answer are, one for one, the indices of the
\* timestamp array whose open, high, low and close are all strictly
\* positive; an index with a zero or missing price gives no candle
C8_OneCandlePerPositiveRow ==
    chart.code = 200 =>
        \E f \in [1..Len(chart.candles) -> KeptIndices] :
            /\ \A i \in KeptIndices : \E k \in 1..Len(chart.candles) : f[k] = i
            /\ \A k, l \in 1..Len(chart.candles) : f[k] = f[l] => k = l
            /\ \A k \in 1..Len(chart.candles) : FromIndex(chart.candles[k], f[k])

\* timestamps 100, 200, 300 with the zero row at the second index answered
\* with the two candles of the first and third index
C8_Witness ==
    /\ upstream.timestamp = <<T(0, 100, 0), T(0, 200, 0), T(0, 300, 0)>>
    /\ upstream.open = <<Num(1000), Num(0), Num(3000)>>
    /\ chart.code = 200
    /\ Len(chart.candles) = 2
    /\ chart.candles[1].open = 1000 /\ chart.candles[2].open = 3000

\* sorting again: every candle inserted in turn by time
RECURSIVE Resort(_)
Resort(cs) ==
    IF cs = <<>> THEN <<>>
    ELSE InsertByTime(Resort(SubSeq(cs, 1, Len(cs) - 1)), cs[Len(cs)])

\* C9: the candles of a 200 answer are in non-decreasing order of time,
\* whatever the order of the upstream timestamps, and sorting them again by
\* time leaves the sequence unchanged
C9_SortedByTime ==
    chart.code = 200 =>
        /\ \A k \in 1..(Len(chart.candles) - 1) :
              ~TimeLess(chart.candles[k + 1], chart.candles[k])
        /\ Resort(chart.candles) = chart.candles

\* an answer whose candles the sort had to reorder
C9_Witness ==
    /\ chart.code = 200
    /\ Len(chart.candles) >= 2
    /\ \E i \in 1..(Len(upstream.timestamp) - 1) :
          /\ i \in KeptIndices /\ (i + 1) \in KeptIndices
          /\ upstream.timestamp[i + 1].hi < upstream.timestamp[i].hi

\* the candle time the claim gives for timestamp t
ClaimedTime(t) == IF t.hi >= Million THEN FloorDiv1000(t) ELSE Floor(t)

\* C10: every candle's time is floor(t / 1000) when its timestamp t is at
\* least 10^12 and floor(t) otherwise
C10_TimeNormalized ==
    chart.code = 200 =>
        \A k \in 1..Len(chart.candles) :
            \E i \in KeptIndices :
                /\ FromIndex(chart.candles[k], i)
                /\ chart.candles[k].time = ClaimedTime(upstream.timestamp[i])

\* the provider answered, with a status outside 200-299
NonSuccess == upstream.shape # "fetchFailed" /\ upstream.status \notin 200..299

\* C11 as stated: a non-success upstream status makes the price and chart
\* routes answer 404 'no data'
C11_NonSuccessIsNoData ==
    (market.route \in {"price", "chart"} /\ chart.code # 0 /\ NonSuccess)
        => chart.code = 404

\* C11 as amended: a non-success upstream status makes the price and chart
\* routes answer 500 with the message 'HTTP error! status: <status>'
C11_NonSuccessIsUpstreamError ==
    (market.route \in {"price", "chart"} /\ chart.code # 0 /\ NonSuccess)
        => /\ chart.code = 500
           /\ chart.error.text = "HTTP error! status: "
           /\ chart.error.status = upstream.status

\* the price route answered an upstream 404
C11_Witness ==
    /\ market.route = "price"
    /\ upstream.shape = "full" /\ upstream.status = 404
    /\ chart.code = 500 /\ chart.error.status = 404

\* the shapes of a chart payload whose structure is absent, empty or
\* malformed
Malformed == {"noChart", "noResult", "emptyResult", "noIndicators", "noQuote",
              "noOpen", "noHigh"}

\* C12: a successful upstream payload whose chart structure is absent,
\* empty or malformed makes the chart route answer 404, and no successful
\* payload makes it answer 500
C12_MalformedIsNoData ==
    (market.route = "chart" /\ chart.code # 0
        /\ upstream.shape # "fetchFailed" /\ upstream.status \in 200..299)
        => /\ upstream.shape \in Malformed => chart.code = 404
           /\ chart.code # 500

\* a field of meta that the payload has
Present(v) == v # Null

\* a field of meta that the payload has and that is not 0
Nonzero(v) == v # Null /\ v[1] # 0

\* C13 as stated: the price is the first field the payload has among
\* regularMarketPrice, currentPrice and previousClose, and 0 without any
C13_FirstPresentField ==
    (market.route = "price" /\ chart.code = 200) =>
        LET meta == upstream.meta
        IN  chart.price =
              IF Present(meta.regularMarketPrice) THEN meta.regularMarketPrice[1]
              ELSE IF Present(meta.currentPrice) THEN meta.currentPrice[1]
              ELSE IF Present(meta.previousClose) THEN meta.previousClose[1]
              ELSE 0

\* C13 as amended: the price is the first field that is present and not 0
\* among regularMarketPrice, currentPrice and previousClose, and 0 without
\* any
C13_FirstNonzeroField ==
    (market.route = "price" /\ chart.code = 200) =>
        LET meta == upstream.meta
        IN  chart.price =
              IF Nonzero(meta.regularMarketPrice) THEN meta.regularMarketPrice[1]
              ELSE IF Nonzero(meta.currentPrice) THEN meta.currentPrice[1]
              ELSE IF Nonzero(meta.previousClose) THEN meta.previousClose[1]
              ELSE 0

\* without regularMarketPrice the quote took currentPrice, not previousClose
C13_Witness ==
    /\ market.route = "price" /\ chart.code = 200
    /\ upstream.meta.regularMarketPrice = Null
    /\ upstream.meta.currentPrice = Num(11000)
    /\ upstream.meta.previousClose = Num(10000)
    /\ chart.price = 11000

Remapped ==
    { <<"BTC", "BTCUSDT">>, <<"ETH", "ETHUSDT">>, <<"XRP", "XRPUSDT">>,
      <<"BNB", "BNBUSDT">>, <<"SOL", "SOLUSDT">>, <<"ADA", "ADAUSDT">>,
      <<"DOGE", "DOGEUSDT">>, <<"DOT", "DOTUSDT">> }

\* C15: the futures route queries symbol+"USDT" for BTC, ETH, XRP, BNB,
\* SOL, ADA, DOGE and DOT, and the requested symbol in every other case
C15_SymbolRemap ==
    (market.route = "futures" /\ fetched # NoFetch) =>
        IF \E pair \in Remapped : pair[1] = market.symbol
        THEN \E pair \in Remapped : pair[1] = market.symbol /\ fetched.symbol = pair[2]
        ELSE fetched.symbol = market.symbol

\* BTC was queried as BTCUSDT
C15_Witness ==
    market.route = "futures" /\ market.symbol = "BTC" /\ fetched.symbol = "BTCUSDT"

\* C16: the interval the futures route sends is the requested one when
\* that is 1m, 5m, 15m or 1h, and 1d for every other requested value;
\* nothing outside 1m, 5m, 15m, 1h, 1d is sent
C16_IntervalCoercion ==
    (market.route = "futures" /\ fetched # NoFetch) =>
        /\ market.interval \in {"1m", "5m", "15m", "1h"} => fetched.interval = market.interval
        /\ market.interval \notin {"1m", "5m", "15m", "1h", "undefined"} => fetched.interval = "1d"
        /\ fetched.interval \in {"1m", "5m", "15m", "1h", "1d"}

\* 30m was queried as 1d
C16_Witness ==
    market.route = "futures" /\ market.interval = "30m" /\ fetched.interval = "1d"

\* C17: a 200 answer of the futures route has one candle per upstream row,
\* in upstream order, its time the row's openTime divided by 1000 and
\* rounded down
C17_OneCandlePerKline ==
    (market.route = "futures" /\ chart.code = 200) =>
        /\ Len(chart.candles) = Len(upstream.klines)
        /\ \A i \in 1..Len(upstream.klines) :
              LET openTime == upstream.klines[i][1]
                  c == chart.candles[i]
              IN  /\ c.time.frac = 0
                  /\ c.time.hi * Million + c.time.lo
                        = openTime.hi * 1000 + (openTime.lo \div 1000)
                  /\ c.open = parseFloat(upstream.klines[i][2])

\* rows in descending time, one of them with an open that is no number,
\* answered row for row
C17_Witness ==
    /\ market.route = "futures" /\ chart.code = 200
    /\ Len(chart.candles) >= 2
    /\ \E i \in 1..(Len(chart.candles) - 1) :
          /\ chart.candles[i + 1].time.hi < chart.candles[i].time.hi
          /\ chart.candles[i].open.nan

\* C18: every upstream request carries the cache-defeating parameter, its
\* value the current timestamp
C18_CacheBust ==
    fetched # NoFetch => fetched.bust = market.now

\* the request on slot p is to a route that declares the preHandler
Guarded(p) == req[p].route \in {"profile", "image"}

\* C19: past the authenticate preHandler, a request whose Authorization
\* header is a Bearer token that verifies has the decoded principal as
\* request.user; any other request was answered 401, 'No token provided'
\* without a Bearer header and 'Invalid or expired token' otherwise, and
\* its handler never ran
C19_AuthenticateGate ==
    \A p \in Procs :
        (Guarded(p) /\ pc[p] # "authenticate") =>
            IF req[p].auth.kind = "valid"
            THEN loc[p].principal = req[p].auth.id
            ELSE /\ pc[p] = "done"
                 /\ loc[p] = NoLoc
                 /\ reply[p].code = 401
                 /\ reply[p].message =
                       IF req[p].auth.kind \in {"none", "malformed"}
                       THEN "No token provided" ELSE "Invalid or expired token"

\* a bearer token that does not verify was answered 401 while a user is
\* registered
C19_Witness ==
    \E p \in Procs :
        /\ Guarded(p) /\ req[p].auth.kind = "invalid"
        /\ reply[p].code = 401 /\ reply[p].message = "Invalid or expired token"
        /\ Len(users) > 0

\* the request on slot p comes from a verified principal who is not
\* :userId
Foreign(p) ==
    /\ Guarded(p)
    /\ req[p].auth.kind = "valid"
    /\ req[p].auth.id # req[p].userId

\* C20: no step of a profile or image request from a verified principal
\* other than :userId changes a user record or a file, and the request is
\* answered 403
C20_OwnProfileOnly ==
    [][\A p \in Procs :
          (Foreign(p) /\ pc[p] # "done" /\ pc'[p] # pc[p]) =>
              /\ users' = users /\ files' = files
              /\ pc'[p] \in {"handler", "done"}
              /\ pc'[p] = "done" => reply'[p].code = 403]_vars

\* principal 2 was refused on the image route of the registered user 1
C20_Witness ==
    \E p \in Procs :
        /\ req[p].route = "image" /\ req[p].userId = 1 /\ req[p].auth.id = 2
        /\ req[p].auth.kind = "valid"
        /\ 1 \in ActiveIds
        /\ pc[p] = "done" /\ reply[p].code = 403

\* C21: PUT /users/:userId/uid with a well-formed uid that no row holds,
\* for a userId that no row has, is answered 404 and changes no record
C21_UnknownUserIs404 ==
    \A p \in Procs :
        (/\ req[p].route = "uid" /\ req[p].entry = "route" /\ pc[p] = "done"
         /\ SevenDigits(req[p].uid)
         /\ req[p].userId \notin Ids
         /\ ~\E i \in Ids : users[i].uid = req[p].uid)
            => reply[p].code = 404

\* C24: a registration whose INSERT is rejected by the UNIQUE key of uid
\* alone does not fail: allocation and insert are tried again
C24_RetryOnUidCollision ==
    [][\A p \in Procs :
          (/\ pc[p] = "insert" /\ pc'[p] # pc[p]
           /\ \A i \in Ids : /\ users[i].email # req[p].body.email
                              /\ users[i].username # req[p].body.username
           /\ \E i \in Ids : users[i].uid = loc[p].uid)
              => pc'[p] # "done"]_vars

\* C26: no two active users have the same phone number
C26_PhoneUnique ==
    \A i, j \in ActiveIds : users[i].phone_number = users[j].phone_number => i = j

\* C28: a file that leaves the disk was under the uploads directory
C28_DeleteWithinUploads ==
    [][\A f \in files \ files' : Len(f) > 0 /\ f[1] = "uploads"]_vars

\* C29: once an image upload has completed with 200 or 500, the previous
\* image file has not been removed while the user's record still points to
\* it: the '/uploads/' value whose file the request unlinked is no longer
\* the record's profile_image
C29_StoredImageOnDisk ==
    \A p \in Procs :
        (/\ req[p].route = "image" /\ pc[p] = "done" /\ reply[p].code \in {200, 500}
         /\ loc[p].unlinked /\ req[p].userId \in ActiveIds
         /\ users[req[p].userId].profile_image = loc[p].oldImage)
            => DiskPath(loc[p].oldImage) \in files

Whitelisted(updateData) ==
    {key \in DOMAIN updateData \cap {"username", "profile_image", "bio", "is_active", "is_verified"} :
        updateData[key] # <<>>}

\* C30: a step of updateUser changes only whitelisted columns that
\* updateData defines, of the row with the given id only; it adds no row;
\* and with no such column it never reaches the UPDATE
C30_OnlyWhitelistedColumns ==
    [][\A p \in Procs :
          req[p].route = "updateUser" =>
            /\ Whitelisted(req[p].updateData) = {} => pc[p] # "update"
            /\ pc'[p] # pc[p] =>
                  /\ Len(users') = Len(users)
                  /\ \A i \in Ids : \A col \in DOMAIN users[i] :
                        users'[i][col] # users[i][col] =>
                            /\ i = req[p].userId
                            /\ col \in Whitelisted(req[p].updateData)]_vars

\* a call whose updateData names username and uid has ended: the user has
\* the new username and not the uid of updateData, next to another user
C30_Witness ==
    \E p \in Procs :
        /\ req[p].route = "updateUser" /\ pc[p] = "done"
        /\ {"username", "uid"} \subseteq DOMAIN req[p].updateData
        /\ req[p].userId \in ActiveIds /\ Len(users) = 2
        /\ users[req[p].userId].username = req[p].updateData["username"][1]
        /\ users[req[p].userId].uid # req[p].updateData["uid"][1]
        /\ loc[p].user = req[p].userId

\* the submitted value of a column is held by an active user
Held(col, value) == \E i \in Ids : ~users[i].deleted /\ users[i][col] = value

\* C22: a register request whose existence check finds the submitted email,
\* username or phone number held by an active user is answered 400 and no
\* row is created; each check is passed only when its value is not held;
\* and a row is inserted only by a request that passed all three
C22_DuplicatesRejected ==
    [][\A p \in Procs :
          req[p].route = "register" =>
            LET body == req[p].body
                held == [check \in {"emailExists", "usernameExists", "phoneNumberExists"} |->
                            CASE check = "emailExists" -> Held("email", body.email)
                              [] check = "usernameExists" -> Held("username", body.username)
                              [] OTHER -> Held("phone_number", body.phoneNumber)]
            IN  /\ \A check \in DOMAIN held :
                      (pc[p] = check /\ pc'[p] # check) =>
                          IF held[check]
                          THEN pc'[p] = "done" /\ reply'[p].code = 400 /\ users' = users
                          ELSE IF check = "phoneNumberExists" /\ ~body.birthDateOk
                          THEN pc'[p] = "done" /\ reply'[p].code = 400
                          ELSE pc'[p] # "done"
                /\ (pc'[p] = "usernameExists" /\ pc[p] # pc'[p]) => pc[p] = "emailExists"
                /\ (pc'[p] = "phoneNumberExists" /\ pc[p] # pc'[p]) => pc[p] = "usernameExists"
                /\ (pc'[p] = "generateUniqueUID" /\ pc[p] # pc'[p]) => pc[p] = "phoneNumberExists"
                /\ (pc'[p] = "insert" /\ pc[p] # pc'[p]) => pc[p] = "generateUniqueUID"
                /\ Len(users') > Len(users) => pc[p] = "insert"]_vars

\* a registration with a fresh email and phone number but the username of an
\* active user was answered 400, and only that user's record exists
C22_Witness ==
    \E p \in Procs :
        /\ req[p].route = "register" /\ pc[p] = "done"
        /\ reply[p] = [code |-> 400, message |-> "Username already exists"]
        /\ Held("username", req[p].body.username)
        /\ ~Held("email", req[p].body.email)
        /\ ~Held("phone_number", req[p].body.phoneNumber)
        /\ Len(users) = 1

\* C23: the row createUser inserts has email_verified FALSE; the step of
\* verify-email sets email_verified and clears the code of the active row
\* of the submitted email exactly when that row's stored code is the
\* submitted one, answering 200; otherwise it answers 400 and no row changes
C23_VerifyExactlyOnStoredCode ==
    [][/\ Len(users') > Len(users) => ~users'[Len(users')].email_verified
       /\ \A p \in Procs :
             (pc[p] = "verifyEmailCode" /\ pc'[p] = "done") =>
                LET hits == {i \in Ids : /\ ~users[i].deleted
                                         /\ users[i].email = req[p].body.email
                                         /\ users[i].code # "NULL"
                                         /\ users[i].code = req[p].code}
                IN  IF hits # {}
                    THEN /\ reply'[p].code = 200
                         /\ \A i \in Ids :
                               users'[i] = IF i \in hits
                                           THEN [users[i] EXCEPT !.email_verified = TRUE,
                                                                 !.code = "NULL"]
                                           ELSE users[i]
                    ELSE reply'[p].code = 400 /\ users' = users]_vars

\* a verify-email request with the fixed code was answered 400 for a user
\* whose email is verified already and whose code was consumed
C23_Witness ==
    \E p \in Procs : \E i \in ActiveIds :
        /\ req[p].route = "verify-email" /\ pc[p] = "done"
        /\ req[p].code = verificationCode /\ users[i].email = req[p].body.email
        /\ users[i].email_verified /\ users[i].code = "NULL"
        /\ reply[p] = [code |-> 400, message |-> "Invalid verification code"]

\* C27: a register request answered 500 'Failed to create user' has left no
\* active record with the submitted email
C27_RegisterAllOrNothing ==
    \A p \in Procs :
        (/\ req[p].route = "register" /\ pc[p] = "done"
         /\ reply[p] = [code |-> 500, message |-> "Failed to create user"])
            => ~\E i \in ActiveIds : users[i].email = req[p].body.email

====
